---- MODULE Spec2Model ----
(***************************************************************************)
(* A model of the members API (MembersAPI.js): the magic-link protocol     *)
(* (sendEmailWithMagicLink, getMemberDataFromMagicLinkToken) and the       *)
(* Stripe webhook middleware (middleware.handleStripeWebhook), over the    *)
(* member repository, the login-event table and the subscription table.    *)
(*                                                                         *)
(* The functions of MembersAPI.js are translated from the source, one      *)
(* action per await-delimited step.  The collaborators the file only       *)
(* requires (repositories/member, services/member-bread,                   *)
(* services/stripe-webhook) are modelled from the specification; each of   *)
(* those definitions says so in its comment.                               *)
(***************************************************************************)
EXTENDS Integers, Sequences, FiniteSets, TLC

(***************************************************************************)
(* Bounds of the model.                                                    *)
(***************************************************************************)
\* The number of magic-link redemptions started in one behaviour.
MaxRedemptions == 3

\* The e-mail addresses of the model.
Emails == {"a@x", "b@x", "c@x"}

\* The absent value (JavaScript undefined / null) of a string field.
None == "none"

\* The concurrent callers of getMemberDataFromMagicLinkToken.
Procs == {"r1", "r2"}

\* "No member": what a lookup that finds nothing yields (null).
NoMember == [id |-> 0, email |-> None]

\* The payloads a magic-link token can decode to: email and oldEmail are
\* each present or absent (part_001:248).
Tokens == [email : Emails \cup {None}, oldEmail : Emails \cup {None}]

NoToken == [email |-> None, oldEmail |-> None]

NoResult == [kind |-> "none", member |-> NoMember, error |-> None]

VARIABLES
    members,      \* the Member table: a sequence of rows, a row's id is its index
    loginEvents,  \* the MemberLoginEvent table: the member_id of each row, in insertion order
    redemptions,  \* number of redemptions started so far
    rpc,          \* rpc[p]: the await point call p of getMemberDataFromMagicLinkToken is at
    token,        \* token[p]: the payload decoded by call p
    member,       \* member[p]: call p's local variable member / newMember
    result,       \* result[p]: what call p returned or threw
    magicLink,    \* the arguments of the latest magicLinkService.sendMagicLink call
    stripeConfigured, \* stripeAPIService.configured
    subscriptions,\* the StripeCustomerSubscription table, by subscription id
    applied,      \* the ids of the webhook events applied so far
    subEvents,    \* the subscription-state events appended, in insertion order
    deliveries,   \* number of webhook requests received so far
    hook,         \* the webhook request being handled, and its response
    logins,       \* history: logins[p] is the number of login events call p has appended
    prior,        \* history: prior[p] is the id of the member an earlier, completed
                  \* redemption of call p's token returned, 0 when there was none
    geolocation,  \* the geolocation column of the Member table: member id -> stored string
    gpc,          \* the await point the call of setMemberGeolocationFromIp is at
    gargs,        \* the arguments (email, ip) of that call
    gmember,      \* its local variable member
    gresult,      \* what it returned or threw
    hpc,          \* the query the call of hasActiveStripeSubscriptions runs next
    hret,         \* what that call returned
    saw,          \* history: whether at some instant of that call a subscription was
                  \* active-like (saw.some), and whether at some instant none was (saw.none)
    offerArgs,    \* the arguments (type, months) of the call of OfferDuration.create
    offerResult   \* what that call returned or threw

linkVars == <<loginEvents, redemptions, rpc, token, member, result, logins, prior>>

hookVars == <<stripeConfigured, subscriptions, applied, subEvents, deliveries, hook>>

geoVars == <<geolocation, gpc, gargs, gmember, gresult>>

queryVars == <<hpc, hret>>

offerVars == <<offerArgs, offerResult>>

\* OfferDuration.create: no call yet, and no result yet.
NoArgs == [type |-> [t |-> "none"], months |-> [t |-> "none"]]

NoDuration == [kind |-> "none"]

\* The variables of the calls modelled further below.
auxVars == <<geoVars, queryVars, saw, offerVars>>

vars == <<members, magicLink, linkVars, hookVars, auxVars>>

(***************************************************************************)
(* The member repository and the member BREAD service.                     *)
(***************************************************************************)
\* The ids of the rows of a Member table.
MemberIds(ms) == 1..Len(ms)

\* memberBREADService.read({email}) / users.get({email}): the row with that
\* email, or null.  (Modelled from the specification, 4.4: get(by) ->
\* Member|null.)
ReadMember(ms, email) ==
    IF \E i \in MemberIds(ms) : ms[i].email = email
    THEN LET i == CHOOSE j \in MemberIds(ms) : ms[j].email = email
         IN  [id |-> i, email |-> ms[i].email]
    ELSE NoMember

\* getMemberIdentityData(email), part_001:273-275.
getMemberIdentityData(ms, email) == ReadMember(ms, email)

\* A repository without the uniqueness constraint on email.
CreateConflicts_Never(ms, email) == FALSE

\* users.create fails with Conflict when the email is already present
\* (specification, 4.4).
CreateConflicts(ms, email) == \E i \in MemberIds(ms) : ms[i].email = email

\* users.create({name, email, labels}): the table with the new row, whose
\* id is fresh (specification, 4.4).
UsersCreate(ms, email) == Append(ms, [email |-> email])

\* users.update(member, {id}) fails with Conflict when the new email is the
\* email of a different member (specification, 4.3 step 3 and 4.4).
UpdateConflicts(ms, m, id) ==
    \E i \in MemberIds(ms) : i # id /\ ms[i].email = m.email

\* users.update(member, {id}): the row with that id takes the attributes
\* of member (specification, 4.4).
UsersUpdate(ms, m, id) ==
    IF id \in MemberIds(ms) THEN [ms EXCEPT ![id].email = m.email] ELSE ms

(***************************************************************************)
(* getMemberDataFromMagicLinkToken, part_001:247-271.  One action per      *)
(* await: the calls of r1 and r2 interleave at these points.               *)
(***************************************************************************)
\* The lookup that always resolves by the new email.
LookupEmail_NewEmail(tok) == tok.email

\* The email the existing member is resolved by (part_001:253): oldEmail
\* when the payload carries one, email otherwise.
LookupEmail(tok) == IF tok.oldEmail # None THEN tok.oldEmail ELSE tok.email

\* A call ends: it returned r or threw r; its locals are gone.
Finish(p, r) ==
    /\ result' = [result EXCEPT ![p] = r]
    /\ rpc' = [rpc EXCEPT ![p] = "idle"]
    /\ member' = [member EXCEPT ![p] = NoMember]

Returned(m) == [kind |-> "returned", member |-> m, error |-> None]

Threw(e) == [kind |-> "threw", member |-> NoMember, error |-> e]

\* The member an earlier redemption of the email-change token tok ended
\* with: the id of the member some completed call of tok returned under the
\* new email, 0 when tok changes no email or no call of it has returned one.
RedeemedBefore(tok) ==
    LET done == {q \in Procs : /\ rpc[q] = "idle"
                               /\ token[q] = tok
                               /\ result[q].kind = "returned"
                               /\ result[q].member # NoMember
                               /\ result[q].member.email = tok.email}
    IN  IF tok.oldEmail # None /\ tok.email # None /\ tok.oldEmail # tok.email /\ done # {}
        THEN result[CHOOSE q \in done : TRUE].member.id
        ELSE 0

\* The create that takes the member already holding the email for the new
\* one instead of failing.
CreateMember_Upsert(p) ==
    /\ rpc[p] = "create"
    /\ IF CreateConflicts(members, token[p].email)
       THEN /\ member' = [member EXCEPT ![p] = ReadMember(members, token[p].email)]
            /\ UNCHANGED members
       ELSE /\ members' = UsersCreate(members, token[p].email)
            /\ member' = [member EXCEPT ![p] =
                             [id |-> Len(members) + 1, email |-> token[p].email]]
    /\ rpc' = [rpc EXCEPT ![p] = "loginNew"]
    /\ UNCHANGED <<result, loginEvents, redemptions, token, logins, prior, magicLink, hookVars,
                   auxVars>>

\* The new member's login event left out.
AddLoginEventNew_Skip(p) ==
    /\ rpc[p] = "loginNew"
    /\ rpc' = [rpc EXCEPT ![p] = "reread"]
    /\ UNCHANGED <<members, loginEvents, logins, redemptions, token, member, result, prior,
                   magicLink, hookVars, auxVars>>

\* The call that goes on to the lookup whatever the payload holds.
Redeem_NoEmailCheck(p, tok) ==
    /\ rpc[p] = "idle"
    /\ redemptions < MaxRedemptions
    /\ redemptions' = redemptions + 1
    /\ token' = [token EXCEPT ![p] = tok]
    /\ logins' = [logins EXCEPT ![p] = 0]
    /\ prior' = [prior EXCEPT ![p] = RedeemedBefore(tok)]
    /\ rpc' = [rpc EXCEPT ![p] = "lookup"]
    /\ result' = [result EXCEPT ![p] = NoResult]
    /\ member' = [member EXCEPT ![p] = NoMember]
    /\ UNCHANGED <<members, loginEvents, magicLink, hookVars, auxVars>>

\* part_001:247-251: decode the token; without an email return null.
Redeem(p, tok) ==
    /\ rpc[p] = "idle"
    /\ redemptions < MaxRedemptions
    /\ redemptions' = redemptions + 1
    /\ token' = [token EXCEPT ![p] = tok]
    /\ logins' = [logins EXCEPT ![p] = 0]
    /\ prior' = [prior EXCEPT ![p] = RedeemedBefore(tok)]
    /\ IF tok.email = None
       THEN Finish(p, Returned(NoMember))
       ELSE /\ rpc' = [rpc EXCEPT ![p] = "lookup"]
            /\ result' = [result EXCEPT ![p] = NoResult]
            /\ member' = [member EXCEPT ![p] = NoMember]
    /\ UNCHANGED <<members, loginEvents, magicLink, hookVars, auxVars>>

\* part_001:253-255: resolve the member, by oldEmail when there is one.
Lookup(p) ==
    /\ rpc[p] = "lookup"
    /\ LET m == getMemberIdentityData(members, LookupEmail(token[p]))
       IN  /\ member' = [member EXCEPT ![p] = m]
           /\ rpc' = [rpc EXCEPT ![p] = IF m # NoMember THEN "login" ELSE "create"]
    /\ UNCHANGED <<members, loginEvents, redemptions, token, result, logins, prior, magicLink,
                   hookVars, auxVars>>

\* part_001:256-265: append the login event of the member found; an
\* email-change confirmation goes on to the update with member.email set
\* to the new email, any other redemption returns the member.
AddLoginEvent(p) ==
    /\ rpc[p] = "login"
    /\ loginEvents' = Append(loginEvents, member[p].id)
    /\ logins' = [logins EXCEPT ![p] = @ + 1]
    /\ IF token[p].oldEmail # None
       THEN /\ member' = [member EXCEPT ![p].email = token[p].email]
            /\ rpc' = [rpc EXCEPT ![p] = "update"]
            /\ UNCHANGED result
       ELSE Finish(p, Returned(member[p]))
    /\ UNCHANGED <<members, redemptions, token, prior, magicLink, hookVars, auxVars>>

\* The update whose Conflict is caught: the call goes on to return the
\* identity under the new email.
UpdateEmail_Swallow(p) ==
    /\ rpc[p] = "update"
    /\ IF UpdateConflicts(members, member[p], member[p].id)
       THEN UNCHANGED members
       ELSE members' = UsersUpdate(members, member[p], member[p].id)
    /\ rpc' = [rpc EXCEPT ![p] = "reread"]
    /\ UNCHANGED <<member, result>>
    /\ UNCHANGED <<loginEvents, redemptions, token, logins, prior, magicLink, hookVars, auxVars>>

\* part_001:262: users.update(member, {id: member.id}); a Conflict is not
\* caught and ends the call.
UpdateEmail(p) ==
    /\ rpc[p] = "update"
    /\ IF UpdateConflicts(members, member[p], member[p].id)
       THEN /\ Finish(p, Threw("Conflict"))
            /\ UNCHANGED members
       ELSE /\ members' = UsersUpdate(members, member[p], member[p].id)
            /\ rpc' = [rpc EXCEPT ![p] = "reread"]
            /\ UNCHANGED <<member, result>>
    /\ UNCHANGED <<loginEvents, redemptions, token, logins, prior, magicLink, hookVars, auxVars>>

\* part_001:268: users.create({name, email, labels}); a Conflict is not
\* caught and ends the call.
CreateMember(p) ==
    /\ rpc[p] = "create"
    /\ IF CreateConflicts(members, token[p].email)
       THEN /\ Finish(p, Threw("Conflict"))
            /\ UNCHANGED members
       ELSE /\ members' = UsersCreate(members, token[p].email)
            /\ member' = [member EXCEPT ![p] =
                             [id |-> Len(members) + 1, email |-> token[p].email]]
            /\ rpc' = [rpc EXCEPT ![p] = "loginNew"]
            /\ UNCHANGED result
    /\ UNCHANGED <<loginEvents, redemptions, token, logins, prior, magicLink, hookVars, auxVars>>

\* part_001:269: the login event of the new member.
AddLoginEventNew(p) ==
    /\ rpc[p] = "loginNew"
    /\ loginEvents' = Append(loginEvents, member[p].id)
    /\ logins' = [logins EXCEPT ![p] = @ + 1]
    /\ rpc' = [rpc EXCEPT ![p] = "reread"]
    /\ UNCHANGED <<members, redemptions, token, member, result, prior, magicLink, hookVars,
                   auxVars>>

\* part_001:263 and 270: return getMemberIdentityData(email).
ReturnIdentity(p) ==
    /\ rpc[p] = "reread"
    /\ Finish(p, Returned(getMemberIdentityData(members, token[p].email)))
    /\ UNCHANGED <<members, loginEvents, redemptions, token, logins, prior, magicLink, hookVars,
                   auxVars>>

(***************************************************************************)
(* sendEmailWithMagicLink, part_001:230-241, and its callers.              *)
(***************************************************************************)
\* The types a caller can request.
RequestedTypes == {"signin", "signup", "subscribe", "signup-paid"}

NoMagicLink == [email |-> None, type |-> None]

\* The resolution without the look at the member repository.
EffectiveType_NoExistenceCheck(ms, email, requestedType, forceEmailType) ==
    IF ~forceEmailType
    THEN IF requestedType # "subscribe" THEN "signup" ELSE requestedType
    ELSE requestedType

\* part_001:231-239: the type handed to the magic-link service.
EffectiveType(ms, email, requestedType, forceEmailType) ==
    IF ~forceEmailType
    THEN IF ReadMember(ms, email) # NoMember
         THEN "signin"
         ELSE IF requestedType # "subscribe" THEN "signup" ELSE requestedType
    ELSE requestedType

\* part_001:230-241: magicLinkService.sendMagicLink({email, type, ...}).
sendEmailWithMagicLink(email, requestedType, forceEmailType) ==
    magicLink' = [email |-> email,
                  type |-> EffectiveType(members, email, requestedType, forceEmailType)]

\* part_001:131-141: the signup email the webhook service sends.
sendSignupEmail(email) == sendEmailWithMagicLink(email, "signup-paid", TRUE)

\* A caller (router controller, member controller, member BREAD service)
\* sends a magic link.
SendMagicLink(email, requestedType, forceEmailType) ==
    /\ sendEmailWithMagicLink(email, requestedType, forceEmailType)
    /\ UNCHANGED <<members, linkVars, hookVars, auxVars>>

(***************************************************************************)
(* The Stripe webhook: events, the webhook service, the middleware.        *)
(***************************************************************************)
\* The webhook event ids of the model, and the requests received.
MaxEventId == 6

MaxDeliveries == 3

EventIds == 1..MaxEventId

SubIds == {"sub1", "sub2"}

StatusCycle == <<"active", "canceled", "trialing", "past_due", "incomplete", "unpaid">>

\* The event the billing processor issued under an id: its id fixes its
\* content.  Ids 3, 7, ... are events of a type the service does not
\* handle; created is the event's timestamp.
Event(id) ==
    [id |-> id,
     type |-> IF id % 4 = 3 THEN "unrecognized" ELSE "customer.subscription.updated",
     subscription |-> IF id % 2 = 1 THEN "sub1" ELSE "sub2",
     customer |-> IF id % 2 = 1 THEN "a@x" ELSE "b@x",
     status |-> StatusCycle[((id - 1) % 6) + 1],
     created |-> id]

\* A webhook request: body 0 is a missing body, otherwise the body is the
\* event of that id; the stripe-signature header is missing, or matches
\* the computed signature, or does not.
Requests == [body : {0} \cup EventIds, signature : {None, "valid", "invalid"}]

NoSubscription == [status |-> None, created |-> 0, member |-> 0]

\* The statuses that count as an active subscription (part_001:192-226).
ActiveLike == {"active", "trialing", "unpaid", "past_due"}

\* A member's derived status (specification, 4.5 step 3).
MemberStatus(subs, id) ==
    IF \E s \in SubIds : subs[s].member = id /\ subs[s].status \in ActiveLike
    THEN "paid" ELSE "free"

\* stripeWebhookService.parseWebhook(body, signature) throws when the
\* signature does not match (specification, 4.5 step 1).
ParseWebhookThrows(req) == req.signature # "valid"

\* stripeWebhookService.parseWebhook(body, signature): the typed event.
parseWebhook(req) == Event(req.body)

\* Event types the webhook service applies (specification, 4.5 step 2).
Recognized(ev) == ev.type = "customer.subscription.updated"

\* No idempotency key: every delivery of a recognized event is applied.
Applies_EveryDelivery(ev) == Recognized(ev)

\* handleWebhook has something to write: a recognized event whose id has
\* not been applied (specification, 4.5 steps 2 and 3).
Applies(ev) == Recognized(ev) /\ ev.id \notin applied

\* Last writer wins by arrival order.
Stale_Never(subs, ev) == FALSE

\* The event is stale: the subscription already holds the state of an
\* event that is as new or newer (specification, 5: last writer wins by
\* event timestamp, not by arrival order).
Stale(subs, ev) ==
    /\ subs[ev.subscription] # NoSubscription
    /\ subs[ev.subscription].created >= ev.created

\* stripeWebhookService.handleWebhook(event) completing without error
\* (specification, 4.5 steps 2-4): an unrecognized type or an applied id
\* is a no-op; otherwise the subscription link is upserted unless the
\* event is stale, a member is provisioned and sent the signup-paid magic
\* link when the customer has none, and the event id is recorded.
handleWebhook(ev) ==
    IF ~Applies(ev)
    THEN UNCHANGED <<members, magicLink, subscriptions, applied, subEvents>>
    ELSE /\ applied' = applied \cup {ev.id}
         /\ IF Stale(subscriptions, ev)
            THEN UNCHANGED <<members, magicLink, subscriptions, subEvents>>
            ELSE LET old == subscriptions[ev.subscription]
                     found == ReadMember(members, ev.customer)
                     id == IF old # NoSubscription THEN old.member
                           ELSE IF found # NoMember THEN found.id
                           ELSE Len(members) + 1
                 IN  /\ IF id = Len(members) + 1
                        THEN /\ members' = UsersCreate(members, ev.customer)
                             /\ sendSignupEmail(ev.customer)
                        ELSE UNCHANGED <<members, magicLink>>
                     /\ subscriptions' =
                            [subscriptions EXCEPT ![ev.subscription] =
                                [status |-> ev.status, created |-> ev.created, member |-> id]]
                     /\ subEvents' = Append(subEvents,
                            [member_id |-> id, subscription |-> ev.subscription,
                             status |-> ev.status])

\* The status codes of the errors handleWebhook can throw: 0 is an error
\* without a statusCode, 409 a Conflict (specification, 7), 500 an
\* internal error.
ErrorStatusCodes == {0, 409, 500}

\* The error's statusCode without the default.
ErrorStatus_NoDefault(statusCode) == statusCode

\* part_001:370: err.statusCode || 500.
ErrorStatus(statusCode) == IF statusCode # 0 THEN statusCode ELSE 500

IdleHook == [pc |-> "idle", body |-> 0, signature |-> None, status |-> 0,
             parsed |-> FALSE, handled |-> FALSE, duplicate |-> FALSE]

\* The response is written: res.writeHead(status); res.end().
Respond(h, status) == [h EXCEPT !.pc = "done", !.status = status]

\* The success path answering like the error path's default.
SuccessResponse_Error(h) == Respond(h, 500)

\* part_001:366-367: res.writeHead(200); res.end().
SuccessResponse(h) == Respond(h, 200)

\* The middleware without the look at the body and the signature header.
handleStripeWebhook_NoBodyCheck(req) ==
    LET h == [IdleHook EXCEPT !.body = req.body, !.signature = req.signature]
    IN  IF ~stripeConfigured
        THEN Respond(h, 400)
        ELSE IF ParseWebhookThrows(req)
        THEN Respond([h EXCEPT !.parsed = TRUE], 401)
        ELSE [h EXCEPT !.pc = "handling", !.parsed = TRUE, !.handled = TRUE,
                       !.duplicate = parseWebhook(req).id \in applied]

\* The middleware that does not stop at a parseWebhook error.
handleStripeWebhook_NoVerify(req) ==
    LET h == [IdleHook EXCEPT !.body = req.body, !.signature = req.signature]
    IN  IF ~stripeConfigured
        THEN Respond(h, 400)
        ELSE IF req.body = 0 \/ req.signature = None
        THEN Respond(h, 400)
        ELSE [h EXCEPT !.pc = "handling", !.parsed = TRUE, !.handled = TRUE,
                       !.duplicate = req.body \in applied]

\* part_001:344-365: the middleware up to its await.  parsed and handled
\* record that parseWebhook and handleWebhook were called; duplicate
\* records that the event handed to handleWebhook had been applied before.
handleStripeWebhook(req) ==
    LET h == [IdleHook EXCEPT !.body = req.body, !.signature = req.signature]
    IN  IF ~stripeConfigured
        THEN Respond(h, 400)
        ELSE IF req.body = 0 \/ req.signature = None
        THEN Respond(h, 400)
        ELSE IF ParseWebhookThrows(req)
        THEN Respond([h EXCEPT !.parsed = TRUE], 401)
        ELSE [h EXCEPT !.pc = "handling", !.parsed = TRUE, !.handled = TRUE,
                       !.duplicate = parseWebhook(req).id \in applied]

\* A webhook request arrives.
WebhookRequest(req) ==
    /\ hook.pc # "handling"
    /\ deliveries < MaxDeliveries
    /\ deliveries' = deliveries + 1
    /\ hook' = handleStripeWebhook(req)
    /\ UNCHANGED <<members, magicLink, linkVars, stripeConfigured, subscriptions,
                   applied, subEvents, auxVars>>

\* Some subscription has an active-like status.
AnyActive(subs) == \E s \in SubIds : subs[s].status \in ActiveLike

\* The history of the call of hasActiveStripeSubscriptions in flight takes
\* in the subscription table as it is after this step.
Observe ==
    saw' = IF hpc = "idle" THEN saw
           ELSE [some |-> saw.some \/ AnyActive(subscriptions'),
                 none |-> saw.none \/ ~AnyActive(subscriptions')]

\* part_001:365-367: handleWebhook resolves and 200 is written.
WebhookHandled ==
    /\ hook.pc = "handling"
    /\ handleWebhook(Event(hook.body))
    /\ hook' = SuccessResponse(hook)
    /\ Observe
    /\ UNCHANGED <<linkVars, stripeConfigured, deliveries, geoVars, queryVars, offerVars>>

\* part_001:368-372: handleWebhook rejects, which it can when it has
\* something to write (specification, 4.5 step 5); nothing is written and
\* the error's status is answered.
WebhookFailed(statusCode) ==
    /\ hook.pc = "handling"
    /\ Applies(Event(hook.body))
    /\ hook' = Respond(hook, ErrorStatus(statusCode))
    /\ UNCHANGED <<members, magicLink, linkVars, stripeConfigured, subscriptions,
                   applied, subEvents, deliveries, auxVars>>

(***************************************************************************)
(* hasActiveStripeSubscriptions, part_001:192-226.  One action per await:  *)
(* webhook deliveries interleave between the queries.                      *)
(***************************************************************************)
\* The queries without the last one.
QueryOrder_NoPastDue == <<"active", "trialing", "unpaid">>

\* The statuses queried, in the order of the queries (part_001:193-219).
QueryOrder == <<"active", "trialing", "unpaid", "past_due">>

\* StripeCustomerSubscription.findOne({status}) finds a row.
FindOne(subs, status) == \E s \in SubIds : subs[s].status = status

\* part_001:192: the call starts; its first query is pending.
HasActiveCall ==
    /\ hpc = "idle"
    /\ hpc' = QueryOrder[1]
    /\ hret' = None
    /\ saw' = [some |-> AnyActive(subscriptions), none |-> ~AnyActive(subscriptions)]
    /\ UNCHANGED <<members, magicLink, linkVars, hookVars, geoVars, offerVars>>

\* part_001:193-225: the pending query resolves; a row found returns
\* true, the last query finding none returns false.
HasActiveQuery ==
    /\ hpc # "idle"
    /\ LET k == CHOOSE i \in 1..Len(QueryOrder) : QueryOrder[i] = hpc
       IN  IF FindOne(subscriptions, hpc)
           THEN hpc' = "idle" /\ hret' = "true"
           ELSE IF k = Len(QueryOrder)
           THEN hpc' = "idle" /\ hret' = "false"
           ELSE hpc' = QueryOrder[k + 1] /\ UNCHANGED hret
    /\ UNCHANGED <<members, magicLink, linkVars, hookVars, geoVars, saw, offerVars>>

(***************************************************************************)
(* setMemberGeolocationFromIp, part_001:285-310.  One action per await.    *)
(* The geolocation service is not part of the file: its outcomes are       *)
(* modelled from the specification (6: lookup(ip) -> serialized-location   *)
(* or null, of bounded latency; 4.4: the lookup can fail or time out).     *)
(***************************************************************************)
\* The ip arguments: absent or an address.
Ips == {None, "203.0.113.7"}

\* What the awaited geolocationService.getGeolocationFromIP(ip) can do:
\* resolve with a location, resolve with no result (null, or nothing at
\* all), or reject because the lookup failed or timed out.
LookupOutcomes == {"location", "null", "undefined", "rejects"}

\* The outcomes that are a failed lookup or no result.
NoLocation == {"null", "undefined", "rejects"}

\* JSON.stringify of what the lookup resolved with (part_001:303): the
\* text of the location, the four characters null for null, and undefined
\* (None) for undefined.
JSONStringify(outcome) ==
    CASE outcome = "location" -> "{\"country\":\"NZ\"}"
      [] outcome = "null" -> "null"
      [] outcome = "undefined" -> None

\* The geolocation column of the member with that id; None when unset.
StoredGeolocation(geo, id) == IF id \in DOMAIN geo THEN geo[id] ELSE None

\* A call of setMemberGeolocationFromIp ends: it returned r or threw r.
GeoFinish(r) ==
    /\ gresult' = r
    /\ gpc' = "idle"
    /\ gmember' = NoMember

\* part_001:285-291: the argument check.
GeoCall(email, ip) ==
    /\ gpc = "idle"
    /\ gargs' = [email |-> email, ip |-> ip]
    /\ IF email = None \/ ip = None
       THEN GeoFinish(Threw("IncorrectUsageError"))
       ELSE /\ gpc' = "get"
            /\ gresult' = NoResult
            /\ gmember' = NoMember
    /\ UNCHANGED <<members, geolocation, magicLink, linkVars, hookVars, queryVars, saw,
                   offerVars>>

\* part_001:294-300: (await users.get({email})).toJSON().  users.get
\* resolves with null when there is no member (specification, 4.4), and
\* calling toJSON on null throws a TypeError; toJSON of a model is an
\* object, so the check of line 296 never throws.
GeoGet ==
    /\ gpc = "get"
    /\ LET m == ReadMember(members, gargs.email)
       IN  IF m = NoMember
           THEN GeoFinish(Threw("TypeError"))
           ELSE /\ gmember' = [id |-> m.id, email |-> m.email,
                               geolocation |-> StoredGeolocation(geolocation, m.id)]
                /\ gpc' = "lookup"
                /\ UNCHANGED gresult
    /\ UNCHANGED <<members, geolocation, gargs, magicLink, linkVars, hookVars, queryVars,
                   saw, offerVars>>

\* part_001:303-305: the awaited lookup and JSON.stringify of its result.
\* A rejection is not caught and ends the call; a truthy text is put into
\* member.geolocation and the call goes on to the update.
GeoLookup(outcome) ==
    /\ gpc = "lookup"
    /\ IF outcome = "rejects"
       THEN GeoFinish(Threw("LookupError"))
       ELSE /\ IF JSONStringify(outcome) # None
               THEN /\ gmember' = [gmember EXCEPT !.geolocation = JSONStringify(outcome)]
                    /\ gpc' = "update"
               ELSE /\ gpc' = "return"
                    /\ UNCHANGED gmember
            /\ UNCHANGED gresult
    /\ UNCHANGED <<members, geolocation, gargs, magicLink, linkVars, hookVars, queryVars,
                   saw, offerVars>>

\* part_001:306: users.update(member, {id: member.id}) with the member as
\* read at line 294 and the new geolocation; a Conflict is not caught.
GeoUpdate ==
    /\ gpc = "update"
    /\ IF UpdateConflicts(members, gmember, gmember.id)
       THEN /\ GeoFinish(Threw("Conflict"))
            /\ UNCHANGED <<members, geolocation>>
       ELSE /\ members' = UsersUpdate(members, gmember, gmember.id)
            /\ geolocation' = (gmember.id :> gmember.geolocation) @@ geolocation
            /\ gpc' = "return"
            /\ UNCHANGED <<gmember, gresult>>
    /\ UNCHANGED <<gargs, magicLink, linkVars, hookVars, queryVars, saw, offerVars>>

\* part_001:309: return getMemberIdentityData(email).
GeoReturn ==
    /\ gpc = "return"
    /\ GeoFinish(Returned(getMemberIdentityData(members, gargs.email)))
    /\ UNCHANGED <<members, geolocation, gargs, magicLink, linkVars, hookVars, queryVars,
                   saw, offerVars>>

(***************************************************************************)
(* OfferDuration.create, OfferDuration.js:23-48.  JavaScript values are    *)
(* records: t is the kind of value, s the text of a string, and a number   *)
(* is the fraction num/den in lowest terms, with den = 0 for NaN (num = 0) *)
(* and Infinity (num = 1).                                                 *)
(***************************************************************************)
\* The largest month count among the arguments.
MaxMonths == 3

JSValue(t, s, num, den) == [t |-> t, s |-> s, num |-> num, den |-> den]

JSUndefined == JSValue("undefined", "", 0, 1)

JSNull == JSValue("null", "", 0, 1)

JSString(s) == JSValue("string", s, 0, 1)

JSNumber(num, den) == JSValue("number", "", num, den)

JSBoolean(b) == JSValue("boolean", IF b THEN "true" ELSE "false", 0, 1)

\* The numbers among the arguments: integers, halves, NaN and Infinity.
JSNumbers ==
    {JSNumber(n, 1) : n \in -1..MaxMonths} \cup
    {JSNumber(n, 2) : n \in {1, 3}} \cup {JSNumber(0, 0), JSNumber(1, 0)}

\* The values passed as type.
OfferTypes ==
    {JSUndefined, JSNull, JSBoolean(TRUE), JSNumber(1, 1)} \cup
    {JSString(s) : s \in {"", "once", "forever", "repeating", "weekly"}}

\* The values passed as months.
OfferMonths == {JSUndefined, JSNull, JSBoolean(TRUE), JSString("3")} \cup JSNumbers

\* JavaScript typeof.
TypeOf(v) == IF v.t = "null" THEN "object" ELSE v.t

\* JavaScript truthiness: undefined, null, false, "", 0 and NaN are falsy.
Truthy(v) ==
    CASE v.t \in {"undefined", "null"} -> FALSE
      [] v.t = "boolean" -> v.s = "true"
      [] v.t = "string" -> v.s # ""
      [] v.t = "number" -> v.num # 0

\* Every number passing for an integer.
IsInteger_AnyNumber(v) == TypeOf(v) = "number"

\* Number.isInteger: a finite number without a fractional part.
IsInteger(v) == TypeOf(v) = "number" /\ v.den # 0 /\ v.num % v.den = 0

InvalidOfferDuration == [kind |-> "threw", error |-> "InvalidOfferDuration"]

\* new OfferDuration({type}) and new OfferDuration({type, months}).
BasicDuration(type) == [kind |-> "duration", type |-> type]

RepeatingDuration(type, months) == [kind |-> "duration", type |-> type, months |-> months]

\* OfferDuration.create(type, months), OfferDuration.js:23-48.
create(type, months) ==
    IF ~Truthy(type) \/ TypeOf(type) # "string"
    THEN InvalidOfferDuration
    ELSE IF type.s # "once" /\ type.s # "repeating" /\ type.s # "forever"
    THEN InvalidOfferDuration
    ELSE IF type.s # "repeating"
    THEN BasicDuration(type.s)
    ELSE IF TypeOf(months) # "number"
    THEN InvalidOfferDuration
    ELSE IF ~IsInteger(months)
    THEN InvalidOfferDuration
    ELSE RepeatingDuration(type.s, months)

\* A caller calls OfferDuration.create(type, months).
OfferCall(type, months) ==
    /\ offerArgs = NoArgs \/ offerResult # NoDuration
    /\ offerArgs' = [type |-> type, months |-> months]
    /\ offerResult' = NoDuration
    /\ UNCHANGED <<members, magicLink, linkVars, hookVars, geoVars, queryVars, saw>>

\* The call returns or throws.
OfferCreate ==
    /\ offerArgs # NoArgs
    /\ offerResult = NoDuration
    /\ offerResult' = create(offerArgs.type, offerArgs.months)
    /\ UNCHANGED <<members, magicLink, linkVars, hookVars, geoVars, queryVars, saw, offerArgs>>

(***************************************************************************)
(* The specifications.                                                     *)
(***************************************************************************)
\* The state after MembersAPI(...) has run: empty tables, no call in
\* flight; Stripe is configured or it is not.
Init ==
    /\ members = <<>>
    /\ loginEvents = <<>>
    /\ redemptions = 0
    /\ rpc = [p \in Procs |-> "idle"]
    /\ token = [p \in Procs |-> NoToken]
    /\ member = [p \in Procs |-> NoMember]
    /\ result = [p \in Procs |-> NoResult]
    /\ magicLink = NoMagicLink
    /\ stripeConfigured \in BOOLEAN
    /\ subscriptions = [s \in SubIds |-> NoSubscription]
    /\ applied = {}
    /\ subEvents = <<>>
    /\ deliveries = 0
    /\ hook = IdleHook
    /\ logins = [p \in Procs |-> 0]
    /\ prior = [p \in Procs |-> 0]
    /\ geolocation = <<>>
    /\ gpc = "idle"
    /\ gargs = [email |-> None, ip |-> None]
    /\ gmember = NoMember
    /\ gresult = NoResult
    /\ hpc = "idle"
    /\ hret = None
    /\ saw = [some |-> FALSE, none |-> FALSE]
    /\ offerArgs = NoArgs
    /\ offerResult = NoDuration

\* Magic-link redemptions, two callers interleaving.
NextLink ==
    \E p \in Procs :
        \/ \E tok \in Tokens : Redeem(p, tok)
        \/ Lookup(p)
        \/ AddLoginEvent(p)
        \/ UpdateEmail(p)
        \/ CreateMember(p)
        \/ AddLoginEventNew(p)
        \/ ReturnIdentity(p)

SpecLink == Init /\ [][NextLink]_vars

\* Webhook deliveries and magic links sent.
NextWebhook ==
    \/ \E req \in Requests : WebhookRequest(req)
    \/ WebhookHandled
    \/ \E statusCode \in ErrorStatusCodes : WebhookFailed(statusCode)
    \/ \E email \in Emails, requestedType \in RequestedTypes, forceEmailType \in BOOLEAN :
           SendMagicLink(email, requestedType, forceEmailType)

SpecWebhook == Init /\ [][NextWebhook]_vars

\* Calls of hasActiveStripeSubscriptions between webhook deliveries: no
\* delivery is applied while a call is in flight.
NextQuery ==
    \/ \E req \in Requests : WebhookRequest(req)
    \/ hpc = "idle" /\ WebhookHandled
    \/ \E statusCode \in ErrorStatusCodes : WebhookFailed(statusCode)
    \/ HasActiveCall
    \/ HasActiveQuery

SpecQuery == Init /\ [][NextQuery]_vars

\* Calls of hasActiveStripeSubscriptions interleaved with webhook
\* deliveries.
NextActive ==
    \/ \E req \in Requests : WebhookRequest(req)
    \/ WebhookHandled
    \/ \E statusCode \in ErrorStatusCodes : WebhookFailed(statusCode)
    \/ HasActiveCall
    \/ HasActiveQuery

SpecActive == Init /\ [][NextActive]_vars

\* The redemptions that run beside the call of setMemberGeolocationFromIp.
GeoProcs == {"r1"}

\* A call of setMemberGeolocationFromIp beside magic-link redemptions.
NextGeo ==
    \/ \E p \in GeoProcs, tok \in Tokens : Redeem(p, tok)
    \/ \E p \in GeoProcs : Lookup(p)
    \/ \E p \in GeoProcs : AddLoginEvent(p)
    \/ \E p \in GeoProcs : UpdateEmail(p)
    \/ \E p \in GeoProcs : CreateMember(p)
    \/ \E p \in GeoProcs : AddLoginEventNew(p)
    \/ \E p \in GeoProcs : ReturnIdentity(p)
    \/ \E email \in Emails \cup {None}, ip \in Ips : GeoCall(email, ip)
    \/ GeoGet
    \/ \E outcome \in LookupOutcomes : GeoLookup(outcome)
    \/ GeoUpdate
    \/ GeoReturn

SpecGeo == Init /\ [][NextGeo]_vars

\* Calls of OfferDuration.create.
NextOffer ==
    \/ \E type \in OfferTypes, months \in OfferMonths : OfferCall(type, months)
    \/ OfferCreate

SpecOffer == Init /\ [][NextOffer]_vars

(***************************************************************************)
(* The properties.                                                         *)
(***************************************************************************)
\* The rows of the Member table that hold an email.
MembersWithEmail(ms, email) == {i \in MemberIds(ms) : ms[i].email = email}

\* C1: sendEmailWithMagicLink hands the magic-link service 'signin' when a
\* member with the email exists, otherwise 'subscribe' when 'subscribe' was
\* requested, otherwise 'signup'; with forceEmailType the requested type is
\* passed on unchanged whether or not a member exists, and the signup email
\* the webhook service sends to a member it provisions carries
\* 'signup-paid'.
C1_EffectiveIntent ==
    [][/\ \A email \in Emails, requestedType \in RequestedTypes, forceEmailType \in BOOLEAN :
            SendMagicLink(email, requestedType, forceEmailType) =>
                /\ magicLink'.email = email
                /\ magicLink'.type =
                       CASE forceEmailType -> requestedType
                         [] ~forceEmailType /\ MembersWithEmail(members, email) # {} -> "signin"
                         [] ~forceEmailType /\ MembersWithEmail(members, email) = {}
                               /\ requestedType = "subscribe" -> "subscribe"
                         [] OTHER -> "signup"
       /\ (hook.pc = "handling" /\ Len(members') > Len(members)) =>
              magicLink' = [email |-> members'[Len(members')].email, type |-> "signup-paid"]
      ]_vars

\* C1's case: a magic link of type signin is out for an existing member,
\* who was provisioned by a webhook.
C1_Witness ==
    /\ magicLink.type = "signin"
    /\ MembersWithEmail(members, magicLink.email) # {}
    /\ Len(subEvents) > 0

\* C2, as claimed: when r1 and r2 have each redeemed the token of the same
\* brand-new email once (in sequence or interleaved) and both calls have
\* ended, exactly one member holds the email and two login events of that
\* member exist.
C2_TwoRedemptionsTwoLogins ==
    \A email \in Emails :
        ( /\ redemptions = 2
          /\ \A p \in Procs : /\ rpc[p] = "idle"
                              /\ token[p] = [email |-> email, oldEmail |-> None] )
        => /\ Cardinality(MembersWithEmail(members, email)) = 1
           /\ Len(loginEvents) = 2
           /\ \A k \in 1..Len(loginEvents) : loginEvents[k] \in MembersWithEmail(members, email)

\* C3: no two Member records share an email.
C3_EmailUnique ==
    \A i, j \in MemberIds(members) : i # j => members[i].email # members[j].email

\* C3's case: two members exist and a redemption has run into the
\* uniqueness constraint.
C3_Witness ==
    /\ Len(members) = 2
    /\ \E p \in Procs : result[p] = Threw("Conflict")

\* C4: in an email-change confirmation (oldEmail = A, email = B, A # B) the
\* member is resolved by A; when the update runs while member X has email A
\* and no other member has email B, then X, with its id, has email B, no
\* member has email A, no member was created and every other member is as
\* before; the call returns the identity resolved under B.
C4_EmailChange ==
    [][\A p \in Procs :
         LET A == token[p].oldEmail
             B == token[p].email
             X == member[p].id
         IN  (A # None /\ A # B /\ rpc'[p] # rpc[p]) =>
               /\ (rpc[p] = "lookup" /\ MembersWithEmail(members, A) # {}) =>
                      /\ member'[p].id \in MembersWithEmail(members, A)
                      /\ rpc'[p] = "login"
               /\ ( /\ rpc[p] = "update"
                    /\ X \in MembersWithEmail(members, A)
                    /\ MembersWithEmail(members, B) = {} ) =>
                      /\ rpc'[p] = "reread"
                      /\ Len(members') = Len(members)
                      /\ members'[X].email = B
                      /\ MembersWithEmail(members', A) = {}
                      /\ \A i \in MemberIds(members) \ {X} : members'[i] = members[i]
               /\ (rpc[p] = "reread") =>
                      /\ result'[p].kind = "returned"
                      /\ result'[p].member = ReadMember(members, B)
                      /\ members' = members
      ]_vars

\* C4's case: of two members, the first has confirmed the change from A
\* to B and the call has returned it under B.
C4_Witness ==
    \E p \in Procs :
        /\ rpc[p] = "idle"
        /\ token[p].oldEmail \in Emails
        /\ token[p].oldEmail # token[p].email
        /\ result[p] = Returned([id |-> 1, email |-> token[p].email])
        /\ Len(members) = 2
        /\ members[1].email = token[p].email
        /\ MembersWithEmail(members, token[p].oldEmail) = {}
        /\ redemptions = 3

\* C5: when the update of an email-change confirmation (oldEmail = A,
\* email = B) runs while B is the email of a different member, the call
\* ends with Conflict, returns no identity, and the Member table is
\* unchanged.
C5_EmailTaken ==
    [][\A p \in Procs :
         ( /\ rpc[p] = "update"
           /\ rpc'[p] # rpc[p]
           /\ MembersWithEmail(members, token[p].email) \ {member[p].id} # {} ) =>
             /\ result'[p] = Threw("Conflict")
             /\ rpc'[p] = "idle"
             /\ members' = members
      ]_vars

\* C5's case: members A and B exist, each with its login event, and the
\* confirmation of a change from A to B has logged in and ended with
\* Conflict.
C5_Witness ==
    \E p \in Procs :
        /\ token[p].oldEmail \in Emails
        /\ token[p].email \in Emails \ {token[p].oldEmail}
        /\ result[p] = Threw("Conflict")
        /\ Len(members) = 2
        /\ redemptions = 3
        /\ Len(loginEvents) = 3
        /\ \A q \in Procs : rpc[q] = "idle"

\* The recognized events of a subscription that have been applied.
AppliedTo(s) ==
    {id \in applied : Recognized(Event(id)) /\ Event(id).subscription = s}

\* The newest of a non-empty set of event ids, by timestamp.
Newest(ids) == CHOOSE id \in ids : \A other \in ids : Event(other).created <= Event(id).created

\* C6: a request whose signature header does not match (parseWebhook
\* throws) is answered 401, handleWebhook is not called for it, and no
\* Member, Subscription or Event record is mutated.
C6_BadSignature ==
    [][( /\ deliveries' = deliveries + 1
         /\ stripeConfigured
         /\ hook'.body # 0
         /\ hook'.signature = "invalid" ) =>
           /\ hook'.pc = "done"
           /\ hook'.status = 401
           /\ hook'.parsed
           /\ ~hook'.handled
           /\ UNCHANGED <<members, subscriptions, applied, subEvents, loginEvents>>
      ]_vars

\* C6's case: after an event has been applied, a request with a signature
\* that does not match has been answered 401.
C6_Witness ==
    /\ hook.pc = "done"
    /\ hook.signature = "invalid"
    /\ hook.status = 401
    /\ applied # {}

\* C7: handling a delivery of a recognized event whose id has been applied
\* before changes no subscription, no member and no member's derived
\* status, appends no subscription-state event, and is answered 200.
C7_SameEventTwice ==
    [][( /\ hook.pc = "handling"
         /\ hook'.pc = "done"
         /\ Recognized(Event(hook.body))
         /\ hook.body \in applied ) =>
           /\ hook'.status = 200
           /\ UNCHANGED <<members, subscriptions, applied, subEvents>>
           /\ \A id \in MemberIds(members) :
                  MemberStatus(subscriptions', id) = MemberStatus(subscriptions, id)
      ]_vars

\* C7's case: the second delivery of an applied subscription event has
\* been answered.
C7_Witness ==
    /\ hook.pc = "done"
    /\ hook.duplicate
    /\ Recognized(Event(hook.body))
    /\ hook.status = 200
    /\ Len(subEvents) = 1

C9_UnrecognizedType ==
    [][( /\ hook.pc = "handling"
         /\ hook' # hook
         /\ ~Recognized(Event(hook.body)) ) =>
           /\ hook'.pc = "done"
           /\ hook'.status = 200
           /\ UNCHANGED <<members, subscriptions, applied, subEvents, loginEvents>>
      ]_vars

\* C9's case: an event of an unrecognized type has been acknowledged.
C9_Witness ==
    /\ hook.pc = "done"
    /\ hook.handled
    /\ hook.signature = "valid"
    /\ ~Recognized(Event(hook.body))
    /\ hook.status = 200

\* C10: whatever the order and number of deliveries, a subscription holds
\* the status of the newest event applied to it, and a member is paid
\* exactly when the newest event of one of its subscriptions carries an
\* active-like status.
C10_NewestEventWins ==
    /\ \A s \in SubIds :
         IF AppliedTo(s) = {}
         THEN subscriptions[s] = NoSubscription
         ELSE /\ subscriptions[s].status = Event(Newest(AppliedTo(s))).status
              /\ subscriptions[s].created = Event(Newest(AppliedTo(s))).created
              /\ subscriptions[s].member \in
                     MembersWithEmail(members, Event(Newest(AppliedTo(s))).customer)
    /\ \A id \in MemberIds(members) :
         MemberStatus(subscriptions, id) = "paid" <=>
           \E s \in SubIds :
              /\ AppliedTo(s) # {}
              /\ subscriptions[s].member = id
              /\ Event(Newest(AppliedTo(s))).status \in ActiveLike

\* C10's case: a stale event has been handled for the first time after a
\* newer event of its subscription was applied.
C10_Witness ==
    /\ hook.pc = "done"
    /\ hook.status = 200
    /\ ~hook.duplicate
    /\ Recognized(Event(hook.body))
    /\ subscriptions[Event(hook.body).subscription].created > Event(hook.body).created

C16_LikeOneQuery ==
    /\ hret = "false" => saw.none
    /\ hret = "true" => saw.some

\* C12: a call whose token decodes to no email returns null at once: it
\* is never at a lookup, create, update or login-event step, and the step
\* that decodes the token changes neither the Member table nor the login
\* events.
C12_NoEmail ==
    [][\A p \in Procs :
         /\ (rpc'[p] # "idle") => token'[p].email # None
         /\ \A tok \in Tokens :
              (Redeem(p, tok) /\ tok.email = None) =>
                 /\ result'[p] = Returned(NoMember)
                 /\ rpc'[p] = "idle"
                 /\ logins'[p] = 0
                 /\ UNCHANGED <<members, loginEvents>>
      ]_vars

\* C12's case: a token without an email, whose oldEmail is the email of a
\* member, has been redeemed and null was returned.
C12_Witness ==
    \E p \in Procs :
        /\ rpc[p] = "idle"
        /\ token[p].email = None
        /\ MembersWithEmail(members, token[p].oldEmail) # {}
        /\ result[p] = Returned(NoMember)

\* C15: a completed redemption has all of its effects or none: a call that
\* raised an error has appended no login event, and a call that returned
\* for a token with an email has appended its one login event.
C15_Atomic ==
    \A p \in Procs :
        (rpc[p] = "idle" /\ token[p].email # None) =>
            /\ (result[p].kind = "threw") => logins[p] = 0
            /\ (result[p].kind = "returned") => logins[p] = 1

\* The step of call p: every step of a call moves its await point.
StepOf(p) == rpc'[p] # rpc[p]

\* C17: a login event is appended one at a time, by the step of a call
\* that holds a member: the event carries that member's id, the id is that
\* of a row of the Member table at the time of the append, the member was
\* resolved by the lookup email (existing member) or is the row create
\* returned for the token's email (new member); and a call that returned
\* for a token with an email appended exactly one login event.
C17_LoginEvents ==
    [][/\ (loginEvents' # loginEvents) =>
            \E p \in Procs :
                /\ StepOf(p)
                /\ rpc[p] \in {"login", "loginNew"}
                /\ loginEvents' = Append(loginEvents, member[p].id)
                /\ member[p].id \in MemberIds(members)
                /\ member[p].email =
                      IF rpc[p] = "login" THEN LookupEmail(token[p]) ELSE token[p].email
       /\ \A p \in Procs :
            /\ (rpc'[p] = "loginNew") => Len(members') >= member'[p].id
            /\ (rpc'[p] = "idle" /\ result'[p].kind = "returned" /\ token'[p].email # None)
                   => logins'[p] = 1
      ]_vars

\* C17's case: login events of an existing member and of a new member have
\* been appended, and an email-change redemption has returned.
C17_Witness ==
    /\ Len(loginEvents) >= 2
    /\ \E i, j \in 1..Len(loginEvents) : i # j /\ loginEvents[i] = loginEvents[j]
    /\ \E p \in Procs :
          /\ rpc[p] = "idle"
          /\ token[p].oldEmail # None
          /\ result[p].kind = "returned"
          /\ result[p].member.email = token[p].email
          /\ logins[p] = 1

\* In the second redemption of an email-change token: member X, whom the
\* earlier redemption returned, still has the new email.
Reredeeming(p) ==
    /\ prior[p] # 0
    /\ rpc[p] # "idle"
    /\ members[prior[p]].email = token[p].email

\* C18 as stated: every step of the second redemption of an email-change
\* token leaves the Member table and the login events as they are, its
\* lookup by the old email finds nothing, and its create is rejected with
\* Conflict.
C18_SecondRedemption ==
    [][\A p \in Procs :
         (Reredeeming(p) /\ StepOf(p)) =>
             /\ UNCHANGED <<members, loginEvents>>
             /\ (rpc[p] = "lookup") => rpc'[p] = "create"
             /\ (rpc[p] = "create") => result'[p] = Threw("Conflict")
      ]_vars

\* C18, amended: when no member has the old email at the lookup of the
\* second redemption, the lookup finds nothing and falls through to the
\* create; the create is rejected with Conflict, and the call ends having
\* changed no member and appended no login event.
C18_SecondRedemptionNoOldEmail ==
    [][\A p \in Procs :
         (Reredeeming(p) /\ StepOf(p)) =>
             /\ (rpc[p] = "lookup" /\ MembersWithEmail(members, token[p].oldEmail) = {}) =>
                    /\ rpc'[p] = "create"
                    /\ UNCHANGED <<members, loginEvents>>
             /\ (rpc[p] = "create") =>
                    /\ result'[p] = Threw("Conflict")
                    /\ rpc'[p] = "idle"
                    /\ logins'[p] = 0
                    /\ UNCHANGED <<members, loginEvents>>
      ]_vars

\* C18's case: the second redemption of an email-change token has ended
\* with Conflict while member X still has the new email.
C18_Witness ==
    \E p \in Procs :
        /\ prior[p] # 0
        /\ rpc[p] = "idle"
        /\ members[prior[p]].email = token[p].email
        /\ result[p] = Threw("Conflict")
        /\ logins[p] = 0

\* C19: a request that is not being handled has its one response status,
\* which only the next request replaces, and a request being handled has
\* none yet; a request that finds Stripe not configured, or has no body or
\* no signature header, is answered 400 with neither parseWebhook nor
\* handleWebhook called; handleWebhook is called only when parseWebhook
\* was called and did not throw; 200 is written only by the step in which
\* handleWebhook completes without error.
C19_StepOrder ==
    [][/\ (hook'.pc = "handling") => hook'.status = 0
       /\ (hook'.pc = "done") => hook'.status # 0
       /\ (hook.pc = "done" /\ hook' # hook) => deliveries' = deliveries + 1
       /\ (hook'.pc # "idle" /\
             (~stripeConfigured \/ hook'.body = 0 \/ hook'.signature = None)) =>
               /\ hook'.status = 400
               /\ ~hook'.parsed
               /\ ~hook'.handled
       /\ hook'.handled =>
               /\ hook'.parsed
               /\ ~ParseWebhookThrows([body |-> hook'.body, signature |-> hook'.signature])
       /\ (hook'.status = 200 /\ hook' # hook) =>
               /\ hook.pc = "handling"
               /\ hook.handled
               /\ hook.status = 0
               /\ handleWebhook(Event(hook.body))
      ]_vars

\* C19's case: a request that is not the first has gone through
\* parseWebhook and handleWebhook and was answered 200, with an event
\* applied.
C19_Witness ==
    /\ deliveries >= 2
    /\ hook.pc = "done"
    /\ hook.status = 200
    /\ hook.parsed
    /\ hook.handled
    /\ applied # {}

\* C20: create returns a duration exactly when type is the string once or
\* forever, and the duration then holds the type alone, or type is the
\* string repeating and months is an integer number, and the duration
\* then holds the type and months as given; for every other input it
\* throws InvalidOfferDuration.
C20_Create ==
    (offerResult # NoDuration) =>
        LET type == offerArgs.type
            months == offerArgs.months
        IN  IF type.t = "string" /\ type.s \in {"once", "forever"}
            THEN /\ offerResult.kind = "duration"
                 /\ DOMAIN offerResult = {"kind", "type"}
                 /\ offerResult.type = type.s
            ELSE IF /\ type.t = "string" /\ type.s = "repeating"
                    /\ months.t = "number" /\ months.den = 1
            THEN /\ offerResult.kind = "duration"
                 /\ DOMAIN offerResult = {"kind", "type", "months"}
                 /\ offerResult.type = "repeating"
                 /\ offerResult.months = months
            ELSE /\ offerResult.kind = "threw"
                 /\ offerResult.error = "InvalidOfferDuration"

\* C20's case: a repeating duration of the largest month count was
\* returned.
C20_Witness ==
    /\ offerArgs # NoArgs
    /\ offerArgs.type.s = "repeating"
    /\ offerArgs.months = JSNumber(MaxMonths, 1)
    /\ offerResult.kind = "duration"
    /\ offerResult.months.num = MaxMonths

\* C13: a lookup that rejects or resolves with no result does not end the
\* call with an error and does not lead to a write: the call goes on to
\* return the identity data with the stored geolocation as it was.
C13_LookupFailure ==
    [][/\ \A outcome \in NoLocation :
            GeoLookup(outcome) =>
                /\ gresult'.kind # "threw"
                /\ gpc' = "return"
                /\ UNCHANGED geolocation
       /\ (GeoUpdate /\ gmember.geolocation \notin {JSONStringify("location")}) =>
                UNCHANGED geolocation
      ]_vars

\* C14: a call for an email no member has ends in NotFoundError with the
\* Member table and the stored geolocations as they were, and a call
\* without an email or an ip ends in IncorrectUsageError in its first step,
\* before the repository is read.
C14_NoMember ==
    [][/\ (GeoGet /\ ReadMember(members, gargs.email) = NoMember) =>
            /\ gresult' = Threw("NotFoundError")
            /\ UNCHANGED <<members, geolocation>>
       /\ \A email \in Emails \cup {None}, ip \in Ips :
            (GeoCall(email, ip) /\ (email = None \/ ip = None)) =>
                /\ gresult' = Threw("IncorrectUsageError")
                /\ gpc' = "idle"
                /\ UNCHANGED <<members, geolocation>>
      ]_vars

====
